---- MODULE Spec2Model ----
(***************************************************************************)
(* Model of the mock reservation API of src/app.py: the in-memory          *)
(* reservation store `bookings`, the availability engine                   *)
(* (check_room_availability, get_availability), the lifecycle handlers     *)
(* (create / update / delete / checkin / checkout), the legacy booking     *)
(* adapter, the profile store `profiles` with its handlers, the two        *)
(* durable files db.json and profiles.json, and the audit log and event    *)
(* sink written through append_json_file.                                  *)
(*                                                                         *)
(* A date string is modelled as <<day, tod>>: the calendar day and the     *)
(* time of day it carries (tod = 0 for a date-only string).  A timestamp   *)
(* is the value of the clock `now`.  uuid4() is a counter of fresh ids.    *)
(* The pass-through fields of a reservation that no handler reads          *)
(* (rate_plan_code, source_code, market_code, guarantee_type, currency,    *)
(* total_amount, guest_count) are left out of the records.  Of a profile   *)
(* the fields profile_id, first_name, last_name, name, preferences,        *)
(* vip_status and the two timestamps are kept.  Of the two log files the   *)
(* model keeps what the request being answered has appended; an entry is   *)
(* reduced to its outcome and status code (audit) or its event name.       *)
(***************************************************************************)
EXTENDS Integers, Sequences, FiniteSets, TLC

VARIABLES
    bookings,   \* the list `bookings` (src/app.py:95-103), in store order
    nextId,     \* number of the next uuid4() to be drawn
    now,        \* the clock read by now_iso()
    last,       \* the most recent request and its response
    thr,        \* handler threads of the pool: position and locals
    profiles,   \* the list `profiles` (src/app.py:105-113), in store order
    disk,       \* the contents of db.json and of profiles.json
    sink,       \* what the request being answered appended to
                \* validation-output.json and to webhook_received.json
    faulty      \* the parts of the file system whose writes can fail

vars == <<bookings, nextId, now, last, thr, profiles, disk, sink, faulty>>

----------------------------------------------------------------------------
(* Bounds of the model *)

MaxIds == 2        \* uuid4() draws in the lifecycle specification
MaxDay == 3        \* calendar days 1..MaxDay
MaxNow == 1        \* the clock takes the values 0..MaxNow
NumThreads == 2    \* handler threads running concurrently
CUIds == 3         \* uuid4() draws in the create/update specification
CapIds == 6        \* uuid4() draws in the capacity scenario on "single"
ConcIds == 3       \* uuid4() draws in the concurrent specification

----------------------------------------------------------------------------
(* Values *)

None == "None"          \* Python None / JSON null in a string-typed field
Absent == "ABSENT"      \* a field the request body does not carry
NoId == 0               \* no id (None)

Days == 1..MaxDay

ROOM_INVENTORY == [single |-> 5, double |-> 3, suite |-> 2]

RoomTypes == DOMAIN ROOM_INVENTORY

DEFAULT_PROPERTY == "DEFAULT_PROPERTY"

\* datetime.fromisoformat(s), tzinfo dropped, time of day set to midnight:
\* what is left to compare is the calendar day.
parse_date(date_str) == date_str[1]

\* date-only string of a day ("2025-12-05")
DateOnly(d) == <<d, 0>>

\* date-time string of a day, not at midnight ("2025-12-05T15:30:00")
DateTime(d) == <<d, 1>>

\* a string datetime.fromisoformat() rejects ("tomorrow")
Malformed == <<0, 2>>

----------------------------------------------------------------------------
(* The pydantic model Reservation *)

validate_room_type(v) == v \in DOMAIN ROOM_INVENTORY

\* both dates are truncated to midnight and compared; the request is
\* rejected when d_dt <= a_dt
departure_after_arrival(a, d) == ~(d[1] <= a[1])

ValidReservation(w) ==
    /\ validate_room_type(w.room_type)
    /\ departure_after_arrival(w.arrival_date, w.departure_date)

\* Field defaults: an absent status becomes "reserved", an explicit null
\* stays None.
Reservation(w) ==
    [w EXCEPT !.status = IF w.status = Absent THEN "reserved" ELSE w.status]

\* Reservation(property_id="DEFAULT_PROPERTY", guest_name=..., room_type=...,
\* arrival_date=check_in, departure_date=check_out): every other field is
\* left to its default.
BookingToReservation(bk) ==
    [reservation_id |-> NoId,
     profile_id     |-> None,
     property_id    |-> DEFAULT_PROPERTY,
     guest_name     |-> bk.guest_name,
     room_type      |-> bk.room_type,
     arrival_date   |-> bk.check_in,
     departure_date |-> bk.check_out,
     guaranteed     |-> FALSE,
     status         |-> Absent]

----------------------------------------------------------------------------
(* Availability engine *)

CountedStatuses == {"booked", "checked_in", "reserved", "guaranteed"}

\* Variant of CheckCounts: the record being updated is not skipped.
CheckCounts_self(b, room_type, check_in_date, check_out_date, exclude_id, include_tentatives) ==
    /\ ~(b.room_type # room_type)
    /\ ~(b.status \notin {"booked", "checked_in", "reserved", "guaranteed"})
    /\ ~(~include_tentatives /\ b.status = "reserved" /\ ~b.guaranteed)
    /\ ~(check_out_date <= parse_date(b.check_in) \/ check_in_date >= parse_date(b.check_out))

\* Variant of CheckCounts: the ranges are compared as closed intervals.
CheckCounts_closed(b, room_type, check_in_date, check_out_date, exclude_id, include_tentatives) ==
    /\ ~(b.room_type # room_type)
    /\ ~(exclude_id # NoId /\ (b.id = exclude_id \/ b.reservation_id = exclude_id))
    /\ ~(b.status \notin {"booked", "checked_in", "reserved", "guaranteed"})
    /\ ~(~include_tentatives /\ b.status = "reserved" /\ ~b.guaranteed)
    /\ ~(check_out_date < parse_date(b.check_in) \/ check_in_date > parse_date(b.check_out))

\* Variant of CheckCounts: tentative reservations are counted whatever the
\* flag says.
CheckCounts_tentative(b, room_type, check_in_date, check_out_date, exclude_id, include_tentatives) ==
    /\ ~(b.room_type # room_type)
    /\ ~(exclude_id # NoId /\ (b.id = exclude_id \/ b.reservation_id = exclude_id))
    /\ ~(b.status \notin {"booked", "checked_in", "reserved", "guaranteed"})
    /\ ~(check_out_date <= parse_date(b.check_in) \/ check_in_date >= parse_date(b.check_out))

\* One iteration of the loop of check_room_availability: TRUE iff the
\* iteration reaches `booked_count += 1`.
CheckCounts(b, room_type, check_in_date, check_out_date, exclude_id, include_tentatives) ==
    /\ ~(b.room_type # room_type)
    /\ ~(exclude_id # NoId /\ (b.id = exclude_id \/ b.reservation_id = exclude_id))
    /\ ~(b.status \notin CountedStatuses)
    /\ ~(~include_tentatives /\ b.status = "reserved" /\ ~b.guaranteed)
    /\ ~(check_out_date <= parse_date(b.check_in) \/ check_in_date >= parse_date(b.check_out))

\* booked_count when the loop of check_room_availability ends
booked_count(bks, room_type, check_in, check_out, exclude_id, include_tentatives) ==
    LET check_in_date  == parse_date(check_in)
        check_out_date == parse_date(check_out)
    IN  Cardinality({i \in 1..Len(bks) :
            CheckCounts(bks[i], room_type, check_in_date, check_out_date,
                        exclude_id, include_tentatives)})

\* Variant of check_room_availability: `<=` in place of `<`.
check_room_availability_le(bks, room_type, check_in, check_out, exclude_id, include_tentatives) ==
    booked_count(bks, room_type, check_in, check_out, exclude_id, include_tentatives)
        <= ROOM_INVENTORY[room_type]

check_room_availability(bks, room_type, check_in, check_out, exclude_id, include_tentatives) ==
    booked_count(bks, room_type, check_in, check_out, exclude_id, include_tentatives)
        < ROOM_INVENTORY[room_type]

\* Variant of QueryCounts: every "reserved" reservation is tentative,
\* guaranteed or not.
QueryCounts_reserved(b, room_type, check_in_date, check_out_date, include_tentatives) ==
    /\ ~(b.room_type # room_type)
    /\ ~(b.status \notin {"booked", "checked_in", "reserved", "guaranteed"})
    /\ ~(~include_tentatives /\ b.status = "reserved")
    /\ ~(check_out_date <= parse_date(b.check_in) \/ check_in_date >= parse_date(b.check_out))

\* One iteration of the inner loop of get_availability.
QueryCounts(b, room_type, check_in_date, check_out_date, include_tentatives) ==
    /\ ~(b.room_type # room_type)
    /\ ~(b.status \notin CountedStatuses)
    /\ ~(~include_tentatives /\ b.status = "reserved" /\ ~b.guaranteed)
    /\ ~(check_out_date <= parse_date(b.check_in) \/ check_in_date >= parse_date(b.check_out))

\* Variant of Max: the difference is returned as it is.
Max_unclamped(a, b) == b

Max(a, b) == IF a >= b THEN a ELSE b

\* The mapping rooms_available computed by get_availability; check_in and
\* check_out are <<>> when the query parameter is missing.
rooms_available(bks, check_in, check_out, include_tentatives, today) ==
    LET check_in_date  == IF check_in # <<>> THEN parse_date(check_in) ELSE parse_date(DateOnly(today))
        check_out_date == IF check_out # <<>> THEN parse_date(check_out) ELSE parse_date(DateOnly(today))
    IN  [room_type \in DOMAIN ROOM_INVENTORY |->
            LET booked == Cardinality({i \in 1..Len(bks) :
                              QueryCounts(bks[i], room_type, check_in_date,
                                          check_out_date, include_tentatives)})
            IN  Max(0, ROOM_INVENTORY[room_type] - booked)]

----------------------------------------------------------------------------
(* Store lookup *)

Matches(b, res_id) == b.id = res_id \/ b.reservation_id = res_id

\* index of the first record one of whose two aliases is res_id, 0 if none
IndexOf(bks, res_id) ==
    IF \E i \in 1..Len(bks) : Matches(bks[i], res_id)
    THEN CHOOSE i \in 1..Len(bks) :
            /\ Matches(bks[i], res_id)
            /\ \A j \in 1..(i - 1) : ~Matches(bks[j], res_id)
    ELSE 0

find_reservation_by_id(bks, res_id) ==
    IF IndexOf(bks, res_id) = 0 THEN <<>> ELSE <<bks[IndexOf(bks, res_id)]>>

\* Variant of RemoveAt: the records after position i go as well.
RemoveAt_tail(s, i) == SubSeq(s, 1, i - 1)

\* s after s.pop(i)
RemoveAt(s, i) == SubSeq(s, 1, i - 1) \o SubSeq(s, i + 1, Len(s))

----------------------------------------------------------------------------
(* Responses *)

NoReq == [none |-> TRUE]

\* What the client of the most recent request sent and got back: the
\* operation, the id in the path (or the id assigned by a create), the
\* request body, the HTTP status code, the stored record the handler found
\* (<<>> if none) and the record the response carries (<<>> if none).
Response(op, id, req, code, before, body) ==
    [op |-> op, id |-> id, req |-> req, code |-> code, before |-> before, body |-> body]

\* A handler thread: where it stands in create_reservation_logic, the body
\* it handles, what its availability check returned, how many units the
\* check found free and how many records had been created when it ran, and
\* the status code it answered.
IdleThread ==
    [pc |-> "idle", w |-> NoReq, avail |-> FALSE, free |-> 0, seen |-> 0, code |-> 0]

IdleThreads == [t \in 1..NumThreads |-> IdleThread]

----------------------------------------------------------------------------
(* Files: the durable collections, the audit log and the event sink *)

DB_FILE == "db.json"
PROFILES_FILE == "profiles.json"
VALIDATION_FILE == "validation-output.json"
WEBHOOK_FILE == "webhook_received.json"

\* A write either reaches the file (TRUE) or fails with an OSError (FALSE);
\* it can fail only on a part of the file system that is faulty.
DiskOutcomes == IF "disk" \in faulty THEN BOOLEAN ELSE {TRUE}
SinkOutcomes == IF "sink" \in faulty THEN BOOLEAN ELSE {TRUE}

\* Variant of append_json_file: a failed write is raised to the caller.
append_json_file_raises(entry, ok) == [entry |-> entry, written |-> ok, raised |-> ~ok]

\* append_json_file(path, entry): ok says whether the entry reached the
\* file.  Both `except Exception` clauses swallow the error, so the call
\* returns normally either way.
append_json_file(entry, ok) == [entry |-> entry, written |-> ok, raised |-> FALSE]

append_validation(success, status_code, ok) ==
    append_json_file([outcome     |-> IF success THEN "success" ELSE "failure",
                      status_code |-> status_code], ok)

write_webhook(event_type, ok) == append_json_file([event |-> event_type], ok)

NoAppends == [path \in {VALIDATION_FILE, WEBHOOK_FILE} |-> <<>>]

\* the appends of one handler: one audit entry, and one event per type
Appends(success, status_code, event_types, va, wh) ==
    [NoAppends EXCEPT
        ![VALIDATION_FILE] = <<append_validation(success, status_code, va)>>,
        ![WEBHOOK_FILE]    = [i \in DOMAIN event_types |-> write_webhook(event_types[i], wh)]]

AppendRaised(appends) ==
    \E path \in DOMAIN appends : \E i \in DOMAIN appends[path] : appends[path][i].raised

\* an exception no handler catches: 500 Internal Server Error
ServerError(resp) == [resp EXCEPT !.code = 500, !.body = <<>>]

\* The end of a handler that writes its audit entry (and events) and then
\* returns resp or raises the HTTPException resp stands for.
Logs(resp, success, event_types) ==
    \E va \in SinkOutcomes, wh \in SinkOutcomes :
        LET appends == Appends(success, resp.code, event_types, va, wh)
        IN  /\ sink' = appends
            /\ last' = IF AppendRaised(appends) THEN ServerError(resp) ELSE resp

\* The end of a handler that has changed a store: save_bookings() or
\* save_profiles() rewrites the file in full, then the audit entry and the
\* event are written.  A failed save is re-raised: nothing is logged and
\* the request is answered 500.
Saves(path, contents, resp, event_type) ==
    \E saved \in DiskOutcomes :
        IF saved
        THEN /\ disk' = [disk EXCEPT ![path] = contents]
             /\ Logs(resp, TRUE, <<event_type>>)
        ELSE /\ disk' = disk
             /\ sink' = NoAppends
             /\ last' = ServerError(resp)

\* The end of a handler that refuses the request: failure audit entry,
\* failure events, HTTPException.
Refuses(resp, event_types) ==
    /\ disk' = disk
    /\ Logs(resp, FALSE, event_types)

\* A request answered without any append: a body rejected by validation,
\* an exception raised outside the logging paths.
Raises(resp) ==
    /\ disk' = disk
    /\ sink' = NoAppends
    /\ last' = resp

Init ==
    /\ bookings = <<>>
    /\ nextId = 1
    /\ now = 0
    /\ last = Response("none", NoId, NoReq, 0, <<>>, <<>>)
    /\ thr = IdleThreads
    /\ profiles = <<>>
    /\ disk = [path \in {DB_FILE, PROFILES_FILE} |-> <<>>]
    /\ sink = NoAppends
    /\ faulty = {}

----------------------------------------------------------------------------
(* Reservation lifecycle manager *)

\* Variant of MappedRecord: a reservation_id sent by the client is kept.
MappedRecord_supplied(r, rid, ts) ==
    [id             |-> IF r.reservation_id # NoId THEN r.reservation_id ELSE rid,
     reservation_id |-> IF r.reservation_id # NoId THEN r.reservation_id ELSE rid,
     profile_id     |-> r.profile_id,
     property_id    |-> r.property_id,
     guest_name     |-> r.guest_name,
     room_type      |-> r.room_type,
     check_in       |-> r.arrival_date,
     check_out      |-> r.departure_date,
     status         |-> r.status,
     created_at     |-> ts,
     updated_at     |-> ts,
     guaranteed     |-> r.guaranteed]

\* The record `mapped` built by create_reservation_logic for the validated
\* reservation r, the fresh id rid and the time ts.
MappedRecord(r, rid, ts) ==
    [id             |-> rid,
     reservation_id |-> rid,
     profile_id     |-> r.profile_id,
     property_id    |-> r.property_id,
     guest_name     |-> r.guest_name,
     room_type      |-> r.room_type,
     check_in       |-> r.arrival_date,
     check_out      |-> r.departure_date,
     status         |-> r.status,
     created_at     |-> ts,
     updated_at     |-> ts,
     guaranteed     |-> r.guaranteed]

\* Variant of create_reservation_logic: a refused reservation is stored
\* all the same.
create_reservation_logic_kept(w, r) ==
    LET rid    == nextId
        mapped == MappedRecord(r, rid, now)
    IN
    IF ~check_room_availability(bookings, r.room_type, r.arrival_date, r.departure_date,
                                NoId, FALSE)
    THEN /\ Refuses(Response("create", NoId, w, 409, <<>>, <<>>),
                    <<"reservation.create_failed">>)
         /\ bookings' = Append(bookings, mapped)
         /\ UNCHANGED nextId
    ELSE /\ bookings' = Append(bookings, mapped)
         /\ nextId' = nextId + 1
         /\ Saves(DB_FILE, Append(bookings, mapped),
                  Response("create", rid, w, 201, <<>>, <<mapped>>),
                  "reservation.created")

\* create_reservation_logic(reservation); w is the body as sent, r the
\* validated model.  model_dump() always has the key "status", so
\* r.get("status", "reserved") is r.status, None included.
create_reservation_logic(w, r) ==
    IF ~check_room_availability(bookings, r.room_type, r.arrival_date, r.departure_date,
                                NoId, FALSE)
    THEN /\ Refuses(Response("create", NoId, w, 409, <<>>, <<>>),
                    <<"reservation.create_failed">>)
         /\ UNCHANGED <<bookings, nextId>>
    ELSE LET rid    == nextId
             mapped == MappedRecord(r, rid, now)
         IN  /\ bookings' = Append(bookings, mapped)
             /\ nextId' = nextId + 1
             /\ Saves(DB_FILE, Append(bookings, mapped),
                      Response("create", rid, w, 201, <<>>, <<mapped>>),
                      "reservation.created")

\* `reservation.status or b.get("status")`
StatusOr(status, prior) == IF status # None THEN status ELSE prior

\* Variant of UpdatedRecord: created_at is stamped again.
UpdatedRecord_restamped(b, r, ts) ==
    [b EXCEPT !.guest_name = r.guest_name,
              !.room_type  = r.room_type,
              !.check_in   = r.arrival_date,
              !.check_out  = r.departure_date,
              !.guaranteed = r.guaranteed,
              !.status     = IF r.status # None THEN r.status ELSE b.status,
              !.created_at = ts,
              !.updated_at = ts]

\* The record b after b.update({...}) and the timestamp lines of
\* update_reservation_logic.
UpdatedRecord(b, r, ts) ==
    [b EXCEPT !.guest_name = r.guest_name,
              !.room_type  = r.room_type,
              !.check_in   = r.arrival_date,
              !.check_out  = r.departure_date,
              !.guaranteed = r.guaranteed,
              !.status     = StatusOr(r.status, b.status),
              !.updated_at = ts]

\* Variant of update_reservation_logic: the availability check comes
\* before the lookup.
update_reservation_logic_checked_first(res_id, w, r) ==
    LET i == IndexOf(bookings, res_id) IN
    /\ UNCHANGED nextId
    /\ IF ~check_room_availability(bookings, r.room_type, r.arrival_date,
                                   r.departure_date, res_id, FALSE)
       THEN /\ Refuses(Response("update", res_id, w, 409, <<>>, <<>>),
                       <<"reservation.update_failed">>)
            /\ UNCHANGED bookings
       ELSE IF i = 0
       THEN /\ Refuses(Response("update", res_id, w, 404, <<>>, <<>>),
                       <<"reservation.update_failed">>)
            /\ UNCHANGED bookings
       ELSE LET b == UpdatedRecord(bookings[i], r, now)
            IN  /\ bookings' = [bookings EXCEPT ![i] = b]
                /\ Saves(DB_FILE, [bookings EXCEPT ![i] = b],
                         Response("update", res_id, w, 200, <<bookings[i]>>, <<b>>),
                         "reservation.updated")

update_reservation_logic(res_id, w, r) ==
    LET i == IndexOf(bookings, res_id) IN
    /\ UNCHANGED nextId
    /\ IF i = 0
       THEN /\ Refuses(Response("update", res_id, w, 404, <<>>, <<>>),
                       <<"reservation.update_failed">>)
            /\ UNCHANGED bookings
       ELSE IF ~check_room_availability(bookings, r.room_type, r.arrival_date,
                                        r.departure_date, res_id, FALSE)
       THEN /\ Refuses(Response("update", res_id, w, 409, <<bookings[i]>>, <<>>),
                       <<"reservation.update_failed">>)
            /\ UNCHANGED bookings
       ELSE LET b == UpdatedRecord(bookings[i], r, now)
            IN  /\ bookings' = [bookings EXCEPT ![i] = b]
                /\ Saves(DB_FILE, [bookings EXCEPT ![i] = b],
                         Response("update", res_id, w, 200, <<bookings[i]>>, <<b>>),
                         "reservation.updated")

delete_reservation_logic(res_id) ==
    LET i == IndexOf(bookings, res_id) IN
    /\ UNCHANGED nextId
    /\ IF i = 0
       THEN /\ Refuses(Response("delete", res_id, NoReq, 404, <<>>, <<>>),
                       <<"reservation.delete_failed">>)
            /\ UNCHANGED bookings
       ELSE /\ bookings' = RemoveAt(bookings, i)
            /\ Saves(DB_FILE, RemoveAt(bookings, i),
                     Response("delete", res_id, NoReq, 200, <<bookings[i]>>, <<>>),
                     "reservation.deleted")

\* Variant of CheckinFrom: a tentative reservation cannot be checked in.
CheckinFrom_firm == {"booked", "guaranteed"}

\* Variant of CheckinFrom: a checked-in reservation can be checked in again.
CheckinFrom_again == {"reserved", "booked", "guaranteed", "checked_in"}

CheckinFrom == {"reserved", "booked", "guaranteed"}

checkin_logic(res_id) ==
    LET found == find_reservation_by_id(bookings, res_id)
        i     == IndexOf(bookings, res_id)
    IN
    /\ UNCHANGED nextId
    /\ IF found = <<>>
       THEN /\ Refuses(Response("checkin", res_id, NoReq, 404, <<>>, <<>>),
                       <<"reservation.checkin_failed">>)
            /\ UNCHANGED bookings
       ELSE IF found[1].status \notin CheckinFrom
       THEN /\ Refuses(Response("checkin", res_id, NoReq, 400, found, <<>>),
                       <<"reservation.checkin_failed">>)
            /\ UNCHANGED bookings
       ELSE LET b == [found[1] EXCEPT !.status = "checked_in", !.updated_at = now]
            IN  /\ bookings' = [bookings EXCEPT ![i] = b]
                /\ Saves(DB_FILE, [bookings EXCEPT ![i] = b],
                         Response("checkin", res_id, NoReq, 200, found, <<b>>),
                         "reservation.checkin")

checkout_logic(res_id) ==
    LET found == find_reservation_by_id(bookings, res_id)
        i     == IndexOf(bookings, res_id)
    IN
    /\ UNCHANGED nextId
    /\ IF found = <<>>
       THEN /\ Refuses(Response("checkout", res_id, NoReq, 404, <<>>, <<>>),
                       <<"reservation.checkout_failed">>)
            /\ UNCHANGED bookings
       ELSE IF found[1].status # "checked_in"
       THEN /\ Refuses(Response("checkout", res_id, NoReq, 400, found, <<>>),
                       <<"reservation.checkout_failed">>)
            /\ UNCHANGED bookings
       ELSE LET b == [found[1] EXCEPT !.status = "checked_out", !.updated_at = now]
            IN  /\ bookings' = [bookings EXCEPT ![i] = b]
                /\ Saves(DB_FILE, [bookings EXCEPT ![i] = b],
                         Response("checkout", res_id, NoReq, 200, found, <<b>>),
                         "reservation.checkout")

----------------------------------------------------------------------------
(* The pydantic model Profile and the profile manager *)

\* A body of POST/PUT /profiles as pydantic sees it: the field values
\* (defaults where the body has no key) and the set of keys the body has
\* (model_fields_set).  `given` maps the keys of the body to their values.
ProfileDefaults ==
    [profile_id |-> None, first_name |-> None, last_name |-> None,
     name |-> None, preferences |-> {}, vip_status |-> None]

ProfileBody(given) ==
    [set |-> DOMAIN given,
     v   |-> [k \in DOMAIN ProfileDefaults |->
                 IF k \in DOMAIN given THEN given[k] ELSE ProfileDefaults[k]]]

\* truth value of an Optional[str]
Truthy(str) == str # None /\ str # ""

\* " ".join([p for p in [first_name, last_name] if p])
Combined(first_name, last_name) ==
    IF Truthy(first_name) /\ Truthy(last_name) THEN first_name \o " " \o last_name
    ELSE IF Truthy(first_name) THEN first_name
    ELSE IF Truthy(last_name) THEN last_name
    ELSE ""

\* The validated model: ensure_display_name assigns the combined name when
\* the body gives no name, and the assignment puts "name" among the fields
\* that are set.
Profile(p) ==
    IF ~Truthy(p.v.name) /\ Combined(p.v.first_name, p.v.last_name) # ""
    THEN [set |-> p.set \cup {"name"},
          v   |-> [p.v EXCEPT !.name = Combined(p.v.first_name, p.v.last_name)]]
    ELSE p

ProfileIndexOf(profs, profile_id) ==
    IF \E i \in 1..Len(profs) : profs[i].profile_id = profile_id
    THEN CHOOSE i \in 1..Len(profs) :
            /\ profs[i].profile_id = profile_id
            /\ \A j \in 1..(i - 1) : profs[j].profile_id # profile_id
    ELSE 0

find_profile_by_id(profs, profile_id) ==
    IF ProfileIndexOf(profs, profile_id) = 0 THEN <<>>
    ELSE <<profs[ProfileIndexOf(profs, profile_id)]>>

\* str(uuid.uuid4()) for the n-th draw
Uuid(n) == "uuid-" \o ToString(n)

\* `data` of create_profile: the dump of the model with the id and the two
\* timestamps filled in.
ProfileData(prof, pid, now_ts) ==
    [profile_id  |-> pid,
     first_name  |-> prof.v.first_name,
     last_name   |-> prof.v.last_name,
     name        |-> prof.v.name,
     preferences |-> prof.v.preferences,
     vip_status  |-> prof.v.vip_status,
     created_at  |-> now_ts,
     updated_at  |-> now_ts]

\* Variant of create_profile's guard: a supplied id is never looked up.
ProfileExists_never(profs, profile_id) == FALSE

\* `profile.profile_id and find_profile_by_id(profile.profile_id)`
ProfileExists(profs, profile_id) ==
    Truthy(profile_id) /\ find_profile_by_id(profs, profile_id) # <<>>

\* What a profile request carries: the id in the path (None for POST) and
\* the body.
ProfileReq(profile_id, p) == [profile_id |-> profile_id, body |-> p]

\* POST /profiles
create_profile(p) ==
    LET prof == Profile(p)
        pid  == IF Truthy(prof.v.profile_id) THEN prof.v.profile_id ELSE Uuid(nextId)
        data == ProfileData(prof, pid, now)
    IN
    /\ UNCHANGED <<bookings, now, thr, faulty>>
    /\ nextId' = IF Truthy(prof.v.profile_id) THEN nextId ELSE nextId + 1
    /\ IF ProfileExists(profiles, prof.v.profile_id)
       THEN /\ Refuses(Response("create_profile", NoId, ProfileReq(None, p), 409, <<>>, <<>>), <<>>)
            /\ UNCHANGED profiles
       ELSE /\ profiles' = Append(profiles, data)
            /\ Saves(PROFILES_FILE, Append(profiles, data),
                     Response("create_profile", NoId, ProfileReq(None, p), 201, <<>>, <<data>>),
                     "profile.created")

\* The keys update_profile writes into the stored profile:
\* model_dump(exclude={"profile_id", "created_at"}, exclude_unset=True),
\* "name" added when the model has one, and of these the keys whose value
\* is not None, or "preferences".
AppliedKeys(prof) ==
    {k \in (prof.set \cup (IF Truthy(prof.v.name) THEN {"name"} ELSE {})) \ {"profile_id"} :
        k \in {"preferences"} \/ prof.v[k] # None}

\* `existing` after existing.update(...) and the updated_at line
UpdatedProfile(existing, prof, now_ts) ==
    [k \in DOMAIN existing |->
        IF k = "updated_at" THEN now_ts
        ELSE IF k \in AppliedKeys(prof) THEN prof.v[k]
        ELSE existing[k]]

\* PUT /profiles/{profile_id}
update_profile(profile_id, p) ==
    LET prof     == Profile(p)
        existing == find_profile_by_id(profiles, profile_id)
        i        == ProfileIndexOf(profiles, profile_id)
    IN
    /\ UNCHANGED <<bookings, nextId, now, thr, faulty>>
    /\ IF existing = <<>>
       THEN /\ Refuses(Response("update_profile", NoId, ProfileReq(profile_id, p), 404, <<>>, <<>>), <<>>)
            /\ UNCHANGED profiles
       ELSE LET new == UpdatedProfile(existing[1], prof, now)
            IN  /\ profiles' = [profiles EXCEPT ![i] = new]
                /\ Saves(PROFILES_FILE, [profiles EXCEPT ![i] = new],
                         Response("update_profile", NoId, ProfileReq(profile_id, p), 200,
                                  existing, <<new>>),
                         "profile.updated")

\* Variant of delete_profile: the reservations of the profile go with it.
delete_profile_cascade(profile_id) ==
    LET idx == ProfileIndexOf(profiles, profile_id)
        Kept(b) == b.profile_id # profile_id
    IN
    /\ UNCHANGED <<nextId, now, thr, faulty>>
    /\ IF idx = 0
       THEN /\ Refuses(Response("delete_profile", NoId, ProfileReq(profile_id, NoReq), 404,
                                <<>>, <<>>), <<>>)
            /\ UNCHANGED <<profiles, bookings>>
       ELSE /\ profiles' = RemoveAt(profiles, idx)
            /\ bookings' = SelectSeq(bookings, Kept)
            /\ Saves(PROFILES_FILE, RemoveAt(profiles, idx),
                     Response("delete_profile", NoId, ProfileReq(profile_id, NoReq), 200,
                              <<profiles[idx]>>, <<>>),
                     "profile.deleted")

\* DELETE /profiles/{profile_id}
delete_profile(profile_id) ==
    LET idx == ProfileIndexOf(profiles, profile_id) IN
    /\ UNCHANGED <<bookings, nextId, now, thr, faulty>>
    /\ IF idx = 0
       THEN /\ Refuses(Response("delete_profile", NoId, ProfileReq(profile_id, NoReq), 404,
                            <<>>, <<>>), <<>>)
            /\ UNCHANGED profiles
       ELSE /\ profiles' = RemoveAt(profiles, idx)
            /\ Saves(PROFILES_FILE, RemoveAt(profiles, idx),
                     Response("delete_profile", NoId, ProfileReq(profile_id, NoReq), 200,
                              <<profiles[idx]>>, <<>>),
                     "profile.deleted")

----------------------------------------------------------------------------
(* Endpoints.  Each handler runs to completion in these actions. *)

\* POST /reservations: the body is validated into a Reservation before the
\* handler runs; an invalid body is answered 422 and the handler never runs.
create_reservation(w) ==
    /\ UNCHANGED <<now, thr, profiles, faulty>>
    /\ IF ~ValidReservation(w)
       THEN /\ Raises(Response("create", NoId, w, 422, <<>>, <<>>))
            /\ UNCHANGED <<bookings, nextId>>
       ELSE create_reservation_logic(w, Reservation(w))

\* PUT /reservations/{reservation_id}
update_reservation(reservation_id, w) ==
    /\ UNCHANGED <<now, thr, profiles, faulty>>
    /\ IF ~ValidReservation(w)
       THEN /\ Raises(Response("update", reservation_id, w, 422, <<>>, <<>>))
            /\ UNCHANGED <<bookings, nextId>>
       ELSE update_reservation_logic(reservation_id, w, Reservation(w))

\* DELETE /reservations/{reservation_id} and DELETE /bookings/{booking_id}
delete_reservation(reservation_id) ==
    /\ UNCHANGED <<now, thr, profiles, faulty>>
    /\ delete_reservation_logic(reservation_id)

\* POST /checkin/{reservation_id} and POST /bookings/checkin/{booking_id}
reservation_checkin(reservation_id) ==
    /\ UNCHANGED <<now, thr, profiles, faulty>>
    /\ checkin_logic(reservation_id)

\* POST /checkout/{reservation_id} and POST /bookings/checkout/{booking_id}
reservation_checkout(reservation_id) ==
    /\ UNCHANGED <<now, thr, profiles, faulty>>
    /\ checkout_logic(reservation_id)

\* POST /bookings: the Reservation is built inside the handler, so a
\* validation error there is an unhandled exception (500).
create_booking_alias(bk) ==
    LET w == BookingToReservation(bk) IN
    /\ UNCHANGED <<now, thr, profiles, faulty>>
    /\ IF ~ValidReservation(w)
       THEN /\ Raises(Response("create", NoId, w, 500, <<>>, <<>>))
            /\ UNCHANGED <<bookings, nextId>>
       ELSE create_reservation_logic(w, Reservation(w))

\* PUT /bookings/{booking_id}
update_booking_alias(booking_id, bk) ==
    LET w == BookingToReservation(bk) IN
    /\ UNCHANGED <<now, thr, profiles, faulty>>
    /\ IF ~ValidReservation(w)
       THEN /\ Raises(Response("update", booking_id, w, 500, <<>>, <<>>))
            /\ UNCHANGED <<bookings, nextId>>
       ELSE update_reservation_logic(booking_id, w, Reservation(w))

\* GET /availability; q.check_in and q.check_out are <<>> when missing,
\* q.today is the value of date.today().  parse_date raises the 400 for a
\* string that is not an ISO date, and get_availability re-raises it.
get_availability(q) ==
    /\ UNCHANGED <<bookings, nextId, now, thr, profiles, faulty>>
    /\ IF q.check_in = Malformed \/ q.check_out = Malformed
       THEN Raises(Response("availability", NoId, q, 400, <<>>, <<>>))
       ELSE /\ disk' = disk
            /\ Logs(Response("availability", NoId, q, 200, <<>>,
                             rooms_available(bookings, q.check_in, q.check_out,
                                             q.include_tentatives, q.today)),
                    TRUE, <<>>)

\* Time passes between two readings of the clock.
Tick ==
    /\ now < MaxNow
    /\ now' = now + 1
    /\ UNCHANGED <<bookings, nextId, last, thr, profiles, disk, sink, faulty>>

----------------------------------------------------------------------------
(* The client takes the response; the next request comes after it. *)

NoResponse == Response("none", NoId, NoReq, 0, <<>>, <<>>)

Deliver ==
    /\ last # NoResponse
    /\ last' = NoResponse
    /\ sink' = NoAppends
    /\ UNCHANGED <<bookings, nextId, now, thr, profiles, disk, faulty>>

----------------------------------------------------------------------------
(* Requests *)

\* A body of POST/PUT /reservations.
Wire(room_type, arrival, departure, guaranteed, status) ==
    [reservation_id |-> NoId,
     profile_id     |-> None,
     property_id    |-> "H1",
     guest_name     |-> "Alice",
     room_type      |-> room_type,
     arrival_date   |-> arrival,
     departure_date |-> departure,
     guaranteed     |-> guaranteed,
     status         |-> status]

\* Valid bodies over the given room types, date strings and
\* <<status, guaranteed>> pairs.
Wires(room_types, dates, kinds) ==
    {Wire(rt, a, d, k[2], k[1]) : rt \in room_types, a \in dates, d \in dates, k \in kinds}

ValidWires(room_types, dates, kinds) ==
    {w \in Wires(room_types, dates, kinds) : ValidReservation(w)}

\* Bodies the model rejects: an unknown room type, a departure on the day
\* of arrival.
InvalidWires ==
    {Wire("penthouse", DateOnly(1), DateOnly(2), FALSE, Absent),
     Wire("suite", DateOnly(2), DateTime(2), FALSE, Absent)}

\* A body of POST/PUT /bookings.
Booking(room_type, check_in, check_out) ==
    [guest_name |-> "Alice", room_type |-> room_type,
     check_in |-> check_in, check_out |-> check_out]

InvalidBookings == {Booking("penthouse", DateOnly(1), DateOnly(2))}

----------------------------------------------------------------------------
(* Spec: every endpoint of the reservation API, on one room type, each     *)
(* request handled to completion before the next.                          *)

Ids == 1..MaxIds

LifeKinds == {<<Absent, FALSE>>, <<Absent, TRUE>>, <<None, FALSE>>,
              <<"booked", FALSE>>, <<"guaranteed", FALSE>>, <<"cancelled", FALSE>>}

LifeWires == ValidWires({"suite"}, {DateOnly(1), DateOnly(2)}, LifeKinds) \cup InvalidWires

LifeBookings == {Booking("suite", DateOnly(1), DateOnly(2))} \cup InvalidBookings

LifeQueries ==
    [check_in : {DateOnly(1), DateTime(1), <<>>}, check_out : {DateOnly(2), <<>>},
     include_tentatives : BOOLEAN, today : 1..2]

Idle == last = NoResponse

CreateReservation == Idle /\ nextId <= MaxIds /\ \E w \in LifeWires : create_reservation(w)
UpdateReservation == Idle /\ \E id \in Ids, w \in LifeWires : update_reservation(id, w)
DeleteReservation == Idle /\ \E id \in Ids : delete_reservation(id)
Checkin == Idle /\ \E id \in Ids : reservation_checkin(id)
Checkout == Idle /\ \E id \in Ids : reservation_checkout(id)
CreateBooking == Idle /\ nextId <= MaxIds /\ \E bk \in LifeBookings : create_booking_alias(bk)
UpdateBooking == Idle /\ \E id \in Ids, bk \in LifeBookings : update_booking_alias(id, bk)
GetAvailability == Idle /\ \E q \in LifeQueries : get_availability(q)

Next ==
    \/ CreateReservation
    \/ UpdateReservation
    \/ DeleteReservation
    \/ Checkin
    \/ Checkout
    \/ CreateBooking
    \/ UpdateBooking
    \/ GetAvailability
    \/ Deliver

Spec == Init /\ [][Next]_vars

----------------------------------------------------------------------------
(* SpecCU: creates and updates only, over every date range of Days.        *)

CUTargets == 1..CUIds

CUKinds == {<<Absent, FALSE>>, <<"booked", FALSE>>}

CUDates == {DateOnly(d) : d \in Days}

\* stays of one or two nights
CUWires ==
    {w \in ValidWires({"suite"}, CUDates, CUKinds) :
        parse_date(w.departure_date) - parse_date(w.arrival_date) <= 2}

CUCreateReservation == Idle /\ nextId <= CUIds /\ \E w \in CUWires : create_reservation(w)
CUUpdateReservation == Idle /\ \E id \in CUTargets, w \in CUWires : update_reservation(id, w)

NextCU ==
    \/ CUCreateReservation
    \/ CUUpdateReservation
    \/ Deliver

SpecCU == Init /\ [][NextCU]_vars

----------------------------------------------------------------------------
(* SpecCap: creates and deletes on "single", whose inventory is 5.         *)

CapTargets == 1..CapIds

\* two date ranges that share the night of day 2
CapWires == {Wire("single", DateOnly(a), DateOnly(3), FALSE, st) :
                a \in 1..2, st \in {Absent, "booked"}}

CapCreateReservation == Idle /\ nextId <= CapIds /\ \E w \in CapWires : create_reservation(w)
CapDeleteReservation == Idle /\ \E id \in CapTargets : delete_reservation(id)

NextCap ==
    \/ CapCreateReservation
    \/ CapDeleteReservation
    \/ Deliver

SpecCap == Init /\ [][NextCap]_vars

----------------------------------------------------------------------------
(* SpecLegacy: the legacy booking endpoints only, with the clock running.  *)

LegacyBookings == {Booking("suite", DateOnly(1), DateOnly(2)),
                   Booking("suite", DateOnly(2), DateOnly(3)),
                   Booking("double", DateOnly(1), DateOnly(2))}

LegacyCreate == Idle /\ nextId <= MaxIds /\ \E bk \in LegacyBookings : create_booking_alias(bk)
LegacyUpdate == Idle /\ \E id \in Ids, bk \in LegacyBookings : update_booking_alias(id, bk)
LegacyDelete == Idle /\ \E id \in Ids : delete_reservation(id)
LegacyCheckin == Idle /\ \E id \in Ids : reservation_checkin(id)
LegacyCheckout == Idle /\ \E id \in Ids : reservation_checkout(id)

NextLegacy ==
    \/ LegacyCreate
    \/ LegacyUpdate
    \/ LegacyDelete
    \/ LegacyCheckin
    \/ LegacyCheckout
    \/ Deliver
    \/ Tick

SpecLegacy == Init /\ [][NextLegacy]_vars

----------------------------------------------------------------------------
(* SpecConc: POST /reservations handled by the threads of the pool.  The   *)
(* handlers are plain functions, so each request runs on its own thread;   *)
(* create_reservation_logic takes no lock, and a thread can be preempted   *)
(* between its availability check and its append.                          *)

Threads == 1..NumThreads

ConcWires == ValidWires({"suite"}, {DateOnly(d) : d \in Days}, {<<"booked", FALSE>>})

\* the call of check_room_availability at the top of create_reservation_logic
ConcCheck(t, w) ==
    LET r == Reservation(w) IN
    /\ thr[t].pc = "idle"
    /\ nextId <= ConcIds
    /\ thr' = [thr EXCEPT ![t] =
                 [pc    |-> "checked",
                  w     |-> w,
                  avail |-> check_room_availability(bookings, r.room_type, r.arrival_date,
                                                    r.departure_date, NoId, FALSE),
                  free  |-> ROOM_INVENTORY[r.room_type]
                              - booked_count(bookings, r.room_type, r.arrival_date,
                                             r.departure_date, NoId, FALSE),
                  seen  |-> nextId,
                  code  |-> 0]]
    /\ UNCHANGED <<bookings, nextId, now, last, profiles, disk, sink, faulty>>

\* the rest of create_reservation_logic: the 409, or uuid4(), append, save
ConcWrite(t) ==
    /\ thr[t].pc = "checked"
    /\ IF ~thr[t].avail
       THEN /\ thr' = [thr EXCEPT ![t].pc = "done", ![t].code = 409]
            /\ sink' = Appends(FALSE, 409, <<"reservation.create_failed">>, TRUE, TRUE)
            /\ UNCHANGED <<bookings, nextId, disk>>
       ELSE /\ bookings' = Append(bookings, MappedRecord(Reservation(thr[t].w), nextId, now))
            /\ nextId' = nextId + 1
            /\ disk' = [disk EXCEPT ![DB_FILE] = bookings']
            /\ sink' = Appends(TRUE, 201, <<"reservation.created">>, TRUE, TRUE)
            /\ thr' = [thr EXCEPT ![t].pc = "done", ![t].code = 201]
    /\ UNCHANGED <<now, last, profiles, faulty>>

\* the response is sent and the thread goes back to the pool
ConcReturn(t) ==
    /\ thr[t].pc = "done"
    /\ thr' = [thr EXCEPT ![t] = IdleThread]
    /\ UNCHANGED <<bookings, nextId, now, last, profiles, disk, sink, faulty>>

ConcBegin == \E t \in Threads, w \in ConcWires : ConcCheck(t, w)
ConcFinish == \E t \in Threads : ConcWrite(t)
ConcDone == \E t \in Threads : ConcReturn(t)

NextConc ==
    \/ ConcBegin
    \/ ConcFinish
    \/ ConcDone

SpecConc == Init /\ [][NextConc]_vars

----------------------------------------------------------------------------
(* SpecProf: the profile endpoints, with the clock running.                *)

ProfCreates ==
    {ProfileBody([profile_id |-> "P1", first_name |-> "Ann", last_name |-> "Lee"]),
     ProfileBody([profile_id |-> "P1", name |-> "Dr Lee", preferences |-> {"quiet"}]),
     ProfileBody([first_name |-> "Bob"])}

ProfUpdates ==
    {ProfileBody([first_name |-> "Zoe"]),
     ProfileBody([name |-> "Mx Lee", vip_status |-> "gold"]),
     ProfileBody([preferences |-> {}]),
     ProfileBody([profile_id |-> "P2", last_name |-> None])}

ProfTargets == {"P1", Uuid(1)}

ProfCreate ==
    Idle /\ \E p \in ProfCreates :
               (Truthy(p.v.profile_id) \/ nextId <= MaxIds) /\ create_profile(p)
ProfUpdate == Idle /\ \E id \in ProfTargets, p \in ProfUpdates : update_profile(id, p)
ProfDelete == Idle /\ \E id \in ProfTargets : delete_profile(id)

NextProf ==
    \/ ProfCreate
    \/ ProfUpdate
    \/ ProfDelete
    \/ Deliver
    \/ Tick

SpecProf == Init /\ [][NextProf]_vars

----------------------------------------------------------------------------
(* SpecRef: reservations that refer to a profile, beside the profile       *)
(* endpoints and the availability query.                                   *)

\* bodies that name profile P1; one of each kind replays the id of the
\* first reservation as its reservation_id
RefWires ==
    {[Wire("suite", DateOnly(1), DateOnly(2), FALSE, st)
         EXCEPT !.profile_id = "P1", !.reservation_id = rid] :
        st \in {Absent, "booked"}, rid \in {NoId, 1}}

RefProfiles == {ProfileBody([profile_id |-> "P1", name |-> "Ann Lee"])}

RefQueries ==
    [check_in : {DateOnly(1), Malformed}, check_out : {DateOnly(2), <<>>},
     include_tentatives : {FALSE}, today : {1}]

RefCreateProfile == Idle /\ \E p \in RefProfiles : create_profile(p)
RefDeleteProfile == Idle /\ delete_profile("P1")
RefCreateReservation == Idle /\ nextId <= MaxIds /\ \E w \in RefWires : create_reservation(w)
RefUpdateReservation == Idle /\ \E id \in Ids, w \in RefWires : update_reservation(id, w)
RefDeleteReservation == Idle /\ \E id \in Ids : delete_reservation(id)
RefCheckin == Idle /\ \E id \in Ids : reservation_checkin(id)
RefCheckout == Idle /\ \E id \in Ids : reservation_checkout(id)
RefGetAvailability == Idle /\ \E q \in RefQueries : get_availability(q)

NextRef ==
    \/ RefCreateProfile
    \/ RefDeleteProfile
    \/ RefCreateReservation
    \/ RefUpdateReservation
    \/ RefDeleteReservation
    \/ RefCheckin
    \/ RefCheckout
    \/ RefGetAvailability
    \/ Deliver

SpecRef == Init /\ [][NextRef]_vars

----------------------------------------------------------------------------
(* SpecFault: requests handled while writes to the durable files or to     *)
(* the log files can fail.                                                 *)

Faults == {"disk", "sink"}

\* From now on the writes to a part of the file system can fail (the
\* volume is full, the file is read-only).
Break(f) ==
    /\ f \notin faulty
    /\ faulty' = faulty \cup {f}
    /\ UNCHANGED <<bookings, nextId, now, last, thr, profiles, disk, sink>>

FaultWires == {Wire("suite", DateOnly(1), DateOnly(2), FALSE, "booked")}

FaultProfiles == {ProfileBody([profile_id |-> "P1", name |-> "Ann Lee"])}

FaultBreak == \E f \in Faults : Break(f)
FaultCreateReservation ==
    Idle /\ nextId <= MaxIds /\ \E w \in FaultWires : create_reservation(w)
FaultCheckin == Idle /\ \E id \in Ids : reservation_checkin(id)
FaultDeleteReservation == Idle /\ \E id \in Ids : delete_reservation(id)
FaultCreateProfile == Idle /\ \E p \in FaultProfiles : create_profile(p)
FaultUpdateProfile ==
    Idle /\ \E p \in {ProfileBody([first_name |-> "Zoe"])} : update_profile("P1", p)
FaultDeleteProfile == Idle /\ delete_profile("P1")

NextFault ==
    \/ FaultBreak
    \/ FaultCreateReservation
    \/ FaultCheckin
    \/ FaultDeleteReservation
    \/ FaultCreateProfile
    \/ FaultUpdateProfile
    \/ FaultDeleteProfile
    \/ Deliver

SpecFault == Init /\ [][NextFault]_vars

----------------------------------------------------------------------------
(* SpecStay: tentative and firm reservations of one room type over the     *)
(* same two nights, through create, update, checkin, checkout and delete,  *)
(* with availability queries whose dates may be left out.                  *)

StayTargets == 1..CUIds

StayWires == ValidWires({"suite"}, {DateOnly(1), DateOnly(3)},
                        {<<Absent, FALSE>>, <<"booked", FALSE>>})

StayQueries ==
    [check_in : {DateOnly(1), <<>>}, check_out : {DateOnly(3), <<>>},
     include_tentatives : BOOLEAN, today : Days]

StayCreate == Idle /\ nextId <= CUIds /\ \E w \in StayWires : create_reservation(w)
StayUpdate == Idle /\ \E id \in StayTargets, w \in StayWires : update_reservation(id, w)
StayCheckin == Idle /\ \E id \in StayTargets : reservation_checkin(id)
StayCheckout == Idle /\ \E id \in StayTargets : reservation_checkout(id)
StayDelete == Idle /\ \E id \in StayTargets : delete_reservation(id)
StayGetAvailability == Idle /\ \E q \in StayQueries : get_availability(q)

NextStay ==
    \/ StayCreate
    \/ StayUpdate
    \/ StayCheckin
    \/ StayCheckout
    \/ StayDelete
    \/ StayGetAvailability
    \/ Deliver

SpecStay == Init /\ [][NextStay]_vars

----------------------------------------------------------------------------
(* Vocabulary of the properties *)

\* the calendar day of a stored date string
DayOf(date_str) == date_str[1]

\* a reservation that consumes capacity
Consuming(b) ==
    \/ b.status \in {"booked", "checked_in", "guaranteed"}
    \/ (b.status = "reserved" /\ b.guaranteed)

\* [a1, d1) and [a2, d2) overlap
Overlapping(a1, d1, a2, d2) == ~(d1 <= a2 \/ a1 >= d2)

\* number of consuming reservations of a room type whose range
\* [arrival, departure) covers night n
NightCount(bks, room_type, n) ==
    Cardinality({i \in 1..Len(bks) :
        /\ bks[i].room_type = room_type
        /\ Consuming(bks[i])
        /\ DayOf(bks[i].check_in) <= n
        /\ n < DayOf(bks[i].check_out)})

\* stored reservations of a room type, other than the one with the given
\* id, that overlap [a, d)
OthersOverlapping(bks, id, room_type, a, d) ==
    {i \in 1..Len(bks) :
        /\ bks[i].id # id
        /\ bks[i].room_type = room_type
        /\ Overlapping(DayOf(bks[i].check_in), DayOf(bks[i].check_out), a, d)}

\* those of them that consume capacity
OthersConsuming(bks, id, room_type, a, d) ==
    {i \in OthersOverlapping(bks, id, room_type, a, d) : Consuming(bks[i])}

\* the stored records with an id
RecordsWithId(bks, id) == {bks[i] : i \in {j \in 1..Len(bks) : bks[j].id = id}}

\* this step is a handler answering a request for op
HandlerStep(op) == last = NoResponse /\ last'.op = op

----------------------------------------------------------------------------
(* C1 *)

\* C1: No overselling.  After any sequence of reservation creates and
\* updates, for every room type and every night, the number of stored
\* capacity-consuming reservations of that type whose range
\* [arrival, departure) covers the night is at most the inventory of the
\* type.
C1_NoOverselling ==
    \A room_type \in RoomTypes, n \in Days :
        NightCount(bookings, room_type, n) <= ROOM_INVENTORY[room_type]

\* A night of "suite" is sold out, a tentative reservation is stored beside
\* the consuming ones, and a create or update has just been refused.
C1_Witness ==
    /\ last.op \in {"create", "update"}
    /\ last.code = 409
    /\ \E n \in Days : NightCount(bookings, "suite", n) = ROOM_INVENTORY["suite"]
    /\ \E i \in 1..Len(bookings) : ~Consuming(bookings[i])

----------------------------------------------------------------------------
(* C2 *)

\* C2: Check-then-write atomicity.  When two creates for the same room type
\* and overlapping ranges run concurrently while exactly one unit of the
\* type is free, at most one of them succeeds: two threads whose
\* availability checks ran on the same store and both found one unit free
\* do not both answer 201.
C2_AtMostOneSucceeds ==
    \A t1 \in Threads, t2 \in Threads :
        ( /\ t1 # t2
          /\ thr[t1].pc = "done"
          /\ thr[t2].pc = "done"
          /\ thr[t1].seen = thr[t2].seen
          /\ thr[t1].free = 1
          /\ thr[t2].free = 1
          /\ thr[t1].w.room_type = thr[t2].w.room_type
          /\ Overlapping(DayOf(thr[t1].w.arrival_date), DayOf(thr[t1].w.departure_date),
                         DayOf(thr[t2].w.arrival_date), DayOf(thr[t2].w.departure_date)) )
        => ~(thr[t1].code = 201 /\ thr[t2].code = 201)

----------------------------------------------------------------------------
(* C3 *)

\* a create of "single" answered 201 or 409 in this step
CreateSingleStep ==
    /\ HandlerStep("create")
    /\ last'.code \in {201, 409}
    /\ last'.req.room_type = "single"

----------------------------------------------------------------------------
(* C4 *)

\* C4: Transition guards.  checkin(id) on an existing reservation succeeds
\* and sets status checked_in iff its status is reserved, booked or
\* guaranteed; checkout(id) succeeds and sets status checked_out iff its
\* status is checked_in; in every other status the call fails with 400 and
\* the record stays as it was.  Delete of an existing reservation succeeds
\* in every status.
C4_TransitionGuards ==
    /\ (last.op = "checkin" /\ last.before # <<>>) =>
          LET old == last.before[1] IN
          IF old.status \in {"reserved", "booked", "guaranteed"}
          THEN /\ last.code = 200
               /\ RecordsWithId(bookings, old.id) # {}
               /\ \A b \in RecordsWithId(bookings, old.id) : b.status = "checked_in"
          ELSE /\ last.code = 400
               /\ RecordsWithId(bookings, old.id) = {old}
    /\ (last.op = "checkout" /\ last.before # <<>>) =>
          LET old == last.before[1] IN
          IF old.status = "checked_in"
          THEN /\ last.code = 200
               /\ RecordsWithId(bookings, old.id) # {}
               /\ \A b \in RecordsWithId(bookings, old.id) : b.status = "checked_out"
          ELSE /\ last.code = 400
               /\ RecordsWithId(bookings, old.id) = {old}
    /\ (last.op = "delete" /\ last.before # <<>>) =>
          /\ last.code = 200
          /\ RecordsWithId(bookings, last.before[1].id) = {}

\* A second checkin of a checked-in reservation has just been refused.
C4_Witness ==
    /\ last.op = "checkin"
    /\ last.code = 400
    /\ last.before # <<>>
    /\ last.before[1].status = "checked_in"

----------------------------------------------------------------------------
(* C5 *)

\* C5: Status trajectory.  Over any sequence of operations the status of a
\* stored reservation only changes along reserved|booked -> checked_in ->
\* checked_out.
C5_StatusTrajectory ==
    [][ \A i \in 1..Len(bookings), j \in 1..Len(bookings') :
          bookings[i].id = bookings'[j].id =>
             LET s == bookings[i].status
                 t == bookings'[j].status
             IN  \/ s = t
                 \/ (s \in {"reserved", "booked"} /\ t = "checked_in")
                 \/ (s = "checked_in" /\ t = "checked_out") ]_vars

----------------------------------------------------------------------------
(* C6 *)

\* C6: A successful update whose request has the status field null or
\* absent leaves the stored status of the reservation as it was.
C6_StatusPreservedByUpdate ==
    (last.op = "update" /\ last.code = 200 /\ last.req.status \in {None, Absent})
        => last.body[1].status = last.before[1].status

----------------------------------------------------------------------------
(* C7 *)

\* C7: Exclusion of self on update.  An update of an existing reservation
\* succeeds iff the consuming reservations of the new room type that
\* overlap the new range, the updated reservation itself left out, are
\* fewer than the inventory; so it succeeds when no other reservation of
\* the room type overlaps the new range.
C7_ExclusionOfSelf ==
    (last.op = "update" /\ last.before # <<>>) =>
        LET w == last.req
            a == DayOf(w.arrival_date)
            d == DayOf(w.departure_date)
        IN  /\ last.code \in {200, 409}
            /\ last.code = 200
                 <=> Cardinality(OthersConsuming(bookings, last.before[1].id, w.room_type, a, d))
                        < ROOM_INVENTORY[w.room_type]
            /\ OthersOverlapping(bookings, last.before[1].id, w.room_type, a, d) = {}
                 => last.code = 200

\* An update has just moved a consuming reservation to a range that does
\* not overlap its old one, while its room type was fully booked over the
\* old range.
C7_Witness ==
    /\ last.op = "update"
    /\ last.code = 200
    /\ last.before # <<>>
    /\ LET old == last.before[1]
           new == last.body[1]
       IN  /\ Consuming(old)
           /\ new.room_type = old.room_type
           /\ ~Overlapping(DayOf(old.check_in), DayOf(old.check_out),
                           DayOf(new.check_in), DayOf(new.check_out))
           /\ Cardinality(OthersConsuming(bookings, old.id, old.room_type,
                                          DayOf(old.check_in), DayOf(old.check_out)))
                 = ROOM_INVENTORY[old.room_type] - 1

----------------------------------------------------------------------------
(* C8 *)

QueryDays == 0..(MaxDay + 1)

\* C8: Overlap rule.  A reservation [a1, d1), from the moment it is stored
\* by a create or an update, counts against a query range [a2, d2) iff
\* not (d1 <= a2 or a1 >= d2), in the guard and in the availability query
\* alike; a create succeeds iff the consuming
\* reservations of its room type overlapping its range by this rule are
\* fewer than the inventory, so back-to-back reservations do not count
\* against each other.
C8_OverlapRule ==
    /\ (last.op \in {"create", "update"} /\ last.code \in {200, 201}) =>
        \A a2 \in QueryDays, d2 \in QueryDays :
          LET b == last.body[1]
              o == /\ b.status \in {"booked", "checked_in", "reserved", "guaranteed"}
                   /\ Overlapping(DayOf(b.check_in), DayOf(b.check_out), a2, d2)
          IN  /\ CheckCounts(b, b.room_type, a2, d2, NoId, TRUE) <=> o
              /\ QueryCounts(b, b.room_type, a2, d2, TRUE) <=> o
    /\ (last.op = "create" /\ last.code \in {201, 409}) =>
          LET w == last.req
              a == DayOf(w.arrival_date)
              d == DayOf(w.departure_date)
          IN  last.code = 201
                <=> Cardinality(OthersConsuming(bookings, last.id, w.room_type, a, d))
                       < ROOM_INVENTORY[w.room_type]

\* With one unit of the room type left over both ranges, two consuming
\* back-to-back reservations are stored, the second one just created.
C8_Witness ==
    /\ last.op = "create"
    /\ last.code = 201
    /\ \E i \in 1..Len(bookings), j \in 1..Len(bookings) :
          LET x == bookings[i]
              y == bookings[j]
          IN  /\ y.id = last.id
              /\ x.room_type = y.room_type
              /\ Consuming(x)
              /\ Consuming(y)
              /\ DayOf(x.check_out) = DayOf(y.check_in)
              /\ Cardinality(OthersConsuming(bookings, y.id, y.room_type,
                                             DayOf(x.check_in), DayOf(y.check_out)))
                    = ROOM_INVENTORY[y.room_type]
              /\ Cardinality(OthersConsuming(bookings, y.id, y.room_type,
                                             DayOf(y.check_in), DayOf(y.check_out)))
                    = ROOM_INVENTORY[y.room_type] - 1

----------------------------------------------------------------------------
(* C9 *)

\* what the tentative policy counts
PolicyCounts(b, include_tentative) ==
    IF include_tentative
    THEN b.status \in {"booked", "checked_in", "reserved", "guaranteed"}
    ELSE Consuming(b)

\* the range of an availability query
QueryArrival(q) == IF q.check_in = <<>> THEN q.today ELSE DayOf(q.check_in)
QueryDeparture(q) == IF q.check_out = <<>> THEN q.today ELSE DayOf(q.check_out)

\* C9: Tentative policy.  With includeTentative=false an overlapping
\* reservation is counted iff it is booked, checked_in or guaranteed, or
\* reserved with guaranteed=true; with includeTentative=true iff its status
\* is booked, checked_in, reserved or guaranteed; a reservation with any
\* other status is never counted.  The guard, the availability query and
\* the outcome of create all follow this count.
C9_TentativePolicy ==
    /\ \A i \in 1..Len(bookings), include_tentative \in BOOLEAN :
          LET b == bookings[i]
              a == DayOf(b.check_in)
              d == DayOf(b.check_out)
          IN  /\ CheckCounts(b, b.room_type, a, d, NoId, include_tentative)
                    <=> PolicyCounts(b, include_tentative)
              /\ QueryCounts(b, b.room_type, a, d, include_tentative)
                    <=> PolicyCounts(b, include_tentative)
    /\ last.op = "availability" =>
          \A room_type \in RoomTypes :
             LET q == last.req
                 counted == {i \in OthersOverlapping(bookings, NoId, room_type,
                                                     QueryArrival(q), QueryDeparture(q)) :
                                PolicyCounts(bookings[i], q.include_tentatives)}
             IN  last.body[room_type] = Max(0, ROOM_INVENTORY[room_type] - Cardinality(counted))
    /\ (last.op = "create" /\ last.code \in {201, 409}) =>
          LET w == last.req
              counted == {i \in OthersOverlapping(bookings, last.id, w.room_type,
                                                  DayOf(w.arrival_date), DayOf(w.departure_date)) :
                             PolicyCounts(bookings[i], FALSE)}
          IN  last.code = 409 <=> Cardinality(counted) >= ROOM_INVENTORY[w.room_type]

\* An availability query without tentatives has just been answered while a
\* tentative reservation and a guaranteed "reserved" one both overlap its
\* range: one unit of "suite" is reported free.
C9_Witness ==
    /\ last.op = "availability"
    /\ ~last.req.include_tentatives
    /\ last.body["suite"] = 1
    /\ \E i \in 1..Len(bookings), j \in 1..Len(bookings) :
          LET a == QueryArrival(last.req)
              d == QueryDeparture(last.req)
          IN  /\ {i, j} \subseteq OthersOverlapping(bookings, NoId, "suite", a, d)
              /\ bookings[i].status = "reserved"
              /\ ~bookings[i].guaranteed
              /\ bookings[j].status = "reserved"
              /\ bookings[j].guaranteed

----------------------------------------------------------------------------
(* C10 *)

\* C10: Create defaults.  Every reservation stored by a successful create
\* that did not supply a non-null status has status "reserved", and no
\* stored reservation has a null status.
C10_CreateDefaults ==
    /\ (last.op = "create" /\ last.code = 201 /\ last.req.status \in {Absent, None})
          => last.body[1].status = "reserved"
    /\ \A i \in 1..Len(bookings) : bookings[i].status # None

----------------------------------------------------------------------------
(* C11 *)

\* the ids of the stored reservations
StoredIds(bks) == {bks[i].id : i \in 1..Len(bks)}

\* C11: Identity invariant.  After every step each stored reservation has
\* id equal to reservation_id and no two stored reservations share an id;
\* a successful create stores its record under an id no stored
\* reservation has, whatever reservation_id the body carries; and update
\* (with a valid body), delete, checkin and checkout find a record iff
\* one of the two aliases of a stored record equals the given id, the
\* record found being the first such record.
C11_Identity ==
    [][ /\ \A i \in 1..Len(bookings') : bookings'[i].id = bookings'[i].reservation_id
        /\ \A i \in 1..Len(bookings'), j \in 1..Len(bookings') :
              i # j => bookings'[i].id # bookings'[j].id
        /\ (HandlerStep("create") /\ last'.code = 201) =>
              /\ last'.id \notin StoredIds(bookings)
              /\ last'.body[1].id = last'.id
              /\ bookings' = Append(bookings, last'.body[1])
        /\ (/\ last = NoResponse
            /\ last'.op \in {"update", "delete", "checkin", "checkout"}
            /\ last'.code \notin {422, 500}) =>
              LET hits == {i \in 1..Len(bookings) :
                              \/ bookings[i].id = last'.id
                              \/ bookings[i].reservation_id = last'.id}
              IN  /\ last'.code # 404 <=> hits # {}
                  /\ hits # {} =>
                        \E i \in hits : /\ \A j \in hits : i <= j
                                        /\ last'.before = <<bookings[i]>> ]_vars

\* A create whose body carries the id of a stored reservation as its
\* reservation_id has just succeeded under a fresh id, the other
\* reservation still stored.
C11_Witness ==
    /\ last.op = "create"
    /\ last.code = 201
    /\ last.req.reservation_id # NoId
    /\ last.req.reservation_id \in StoredIds(bookings)
    /\ last.id # last.req.reservation_id
    /\ Len(bookings) = 2

----------------------------------------------------------------------------
(* C12 *)

\* C12: Timestamps.  A successful create stores created_at equal to
\* updated_at; a successful update, checkin or checkout keeps created_at
\* and sets updated_at to the current time, which is not earlier than the
\* value it replaces; and no step of any operation changes the created_at
\* of a reservation that stays in the store.
C12_Timestamps ==
    [][ /\ (HandlerStep("create") /\ last'.code = 201) =>
              /\ last'.body[1].created_at = last'.body[1].updated_at
              /\ last'.body[1] \in RecordsWithId(bookings', last'.id)
        /\ (last = NoResponse /\ last'.op \in {"update", "checkin", "checkout"}
                              /\ last'.code = 200) =>
              LET old == last'.before[1]
                  new == last'.body[1]
              IN  /\ new.created_at = old.created_at
                  /\ new.updated_at = now
                  /\ new.updated_at >= old.updated_at
                  /\ RecordsWithId(bookings', old.id) = {new}
        /\ \A i \in 1..Len(bookings), j \in 1..Len(bookings') :
              bookings'[j].id = bookings[i].id
                 => bookings'[j].created_at = bookings[i].created_at ]_vars

\* A reservation created at one time has just been updated, checked in or
\* checked out at a later time.
C12_Witness ==
    /\ last.op \in {"update", "checkin", "checkout"}
    /\ last.code = 200
    /\ last.body[1].created_at < last.body[1].updated_at
    /\ last.before[1].updated_at < last.body[1].updated_at

----------------------------------------------------------------------------
(* C13 *)

\* the sequence s without its i-th element
Without(s, i) == [j \in 1..(Len(s) - 1) |-> IF j < i THEN s[j] ELSE s[j + 1]]

\* C13: Delete.  delete(id) of a stored reservation, whatever its status,
\* answers 200 and removes that record and nothing else, the others
\* keeping their order; delete of an id no stored record has answers 404
\* and leaves the store as it is; an id that has left the store never
\* comes back, and update (with a valid body), delete, checkin and
\* checkout of an id no stored record has all answer 404 and change
\* nothing.
C13_Delete ==
    [][ /\ HandlerStep("delete") =>
              IF RecordsWithId(bookings, last'.id) = {}
              THEN last'.code = 404 /\ bookings' = bookings
              ELSE /\ last'.code = 200
                   /\ \E i \in 1..Len(bookings) :
                         /\ bookings[i].id = last'.id
                         /\ bookings' = Without(bookings, i)
                   /\ RecordsWithId(bookings', last'.id) = {}
        /\ (/\ last = NoResponse
            /\ last'.op \in {"update", "delete", "checkin", "checkout"}
            /\ last'.code \notin {422, 500}
            /\ RecordsWithId(bookings, last'.id) = {}) =>
              (last'.code = 404 /\ bookings' = bookings)
        /\ \A id \in 1..(nextId - 1) :
              RecordsWithId(bookings, id) = {} => RecordsWithId(bookings', id) = {} ]_vars

\* An update, checkin, checkout or delete of a reservation that was
\* deleted earlier has just been answered 404 while another reservation is
\* still stored.
C13_Witness ==
    /\ last.op \in {"update", "delete", "checkin", "checkout"}
    /\ last.code = 404
    /\ last.id < nextId
    /\ Len(bookings) > 0

----------------------------------------------------------------------------
(* C14 *)

\* the operations that change a store when they succeed
StateChangingOps ==
    {"create", "update", "delete", "checkin", "checkout",
     "create_profile", "update_profile", "delete_profile"}

FailedEvents ==
    {"reservation.create_failed", "reservation.update_failed",
     "reservation.delete_failed", "reservation.checkin_failed",
     "reservation.checkout_failed", "profile.create_failed",
     "profile.update_failed", "profile.delete_failed"}

\* C14: Failure reporting.  Whenever an operation has been answered with
\* an error, it has appended exactly one audit record, of outcome
\* "failure"; and when the operation is a create, update, delete, checkin
\* or checkout, of a reservation or of a profile, it has also appended
\* exactly one event, of a `*_failed` type.
C14_FailureReporting ==
    last.code >= 400 =>
        /\ Len(sink[VALIDATION_FILE]) = 1
        /\ sink[VALIDATION_FILE][1].entry.outcome = "failure"
        /\ last.op \in StateChangingOps =>
              /\ Len(sink[WEBHOOK_FILE]) = 1
              /\ sink[WEBHOOK_FILE][1].entry.event \in FailedEvents

----------------------------------------------------------------------------
(* C15 *)

\* every append of the request reached its file
AllWritten(appends) ==
    \A path \in DOMAIN appends : \A i \in DOMAIN appends[path] : appends[path][i].written

\* C15: Best-effort sink.  Whatever a handler answers and does to the
\* reservation store, the profile store, the two durable files and the id
\* counter while appends to the audit log or the event sink fail, the same
\* request handled in the same state with every append succeeding has the
\* same answer and the same effects.
C15_BestEffortSink ==
    [][ (last = NoResponse /\ last' # NoResponse /\ ~AllWritten(sink')) =>
          \E v \in {<<last', bookings', profiles', disk', nextId'>>} :
              ENABLED ( /\ NextFault
                        /\ AllWritten(sink')
                        /\ <<last', bookings', profiles', disk', nextId'>> = v ) ]_vars

\* A create has just been answered 201 although its audit entry or its
\* event was lost.
C15_Witness ==
    /\ last.op \in {"create", "create_profile"}
    /\ last.code = 201
    /\ ~AllWritten(sink)

----------------------------------------------------------------------------
(* C16 *)

\* C16: Durable mirror.  After every completed operation db.json holds
\* the reservation store in full and profiles.json the profile store in
\* full, also when a write of one of the two files has failed.
C16_DurableMirror ==
    /\ disk[DB_FILE] = bookings
    /\ disk[PROFILES_FILE] = profiles

----------------------------------------------------------------------------
(* C17 *)

\* C17: Profile identity.  A create of a profile whose body carries the
\* profile_id of a stored profile answers 409 and leaves the profile store
\* as it is; any other create answers 201; and after every step no two
\* stored profiles share a profile_id.
C17_ProfileIdentity ==
    [][ /\ HandlerStep("create_profile") =>
              LET pid == last'.req.body.v.profile_id
              IN  IF pid # None /\ \E i \in 1..Len(profiles) : profiles[i].profile_id = pid
                  THEN last'.code = 409 /\ profiles' = profiles
                  ELSE last'.code = 201 /\ profiles' = Append(profiles, last'.body[1])
        /\ \A i \in 1..Len(profiles'), j \in 1..Len(profiles') :
              i # j => profiles'[i].profile_id # profiles'[j].profile_id ]_vars

\* A create with the id of a stored profile has just been refused, two
\* profiles being stored.
C17_Witness ==
    /\ last.op = "create_profile"
    /\ last.code = 409
    /\ Len(profiles) = 2

----------------------------------------------------------------------------
(* C18 *)

\* C18: Profile partial update.  A successful update leaves every field
\* the body does not carry as it was stored (updated_at aside), name
\* included; stores the preferences of the body whenever the body carries
\* preferences; and never changes profile_id or created_at.
C18_PartialUpdate ==
    (last.op = "update_profile" /\ last.code = 200) =>
        LET old  == last.before[1]
            new  == last.body[1]
            sent == last.req.body
        IN  /\ \A k \in DOMAIN old \ {"updated_at"} : k \notin sent.set => new[k] = old[k]
            /\ "preferences" \in sent.set => new.preferences = sent.v.preferences
            /\ new.profile_id = old.profile_id
            /\ new.created_at = old.created_at

----------------------------------------------------------------------------
(* C19 *)

\* a reservation whose profile_id names no stored profile
Dangling(b) ==
    /\ b.profile_id # None
    /\ \A i \in 1..Len(profiles) : profiles[i].profile_id # b.profile_id

\* C19: No cascade.  A delete of a profile leaves the reservation store
\* and db.json as they are; and a reservation whose profile is gone is
\* still found by update, checkin, checkout and delete, which treat it by
\* the usual rules: checkin succeeds iff its status is reserved, booked or
\* guaranteed, checkout iff it is checked_in, delete always, and an update
\* that succeeds keeps its profile_id.
C19_NoCascade ==
    [][ /\ HandlerStep("delete_profile") =>
              (bookings' = bookings /\ disk'[DB_FILE] = disk[DB_FILE])
        /\ (/\ last = NoResponse
            /\ last'.op \in {"update", "checkin", "checkout", "delete"}
            /\ \E i \in 1..Len(bookings) : bookings[i].id = last'.id /\ Dangling(bookings[i])) =>
              LET old == last'.before[1]
              IN  /\ last'.code # 404
                  /\ last'.op = "checkin" =>
                        (last'.code = 200 <=> old.status \in {"reserved", "booked", "guaranteed"})
                  /\ last'.op = "checkout" => (last'.code = 200 <=> old.status = "checked_in")
                  /\ last'.op = "delete" => last'.code = 200
                  /\ last'.op = "update" =>
                        /\ last'.code \in {200, 409}
                        /\ last'.code = 200 => last'.body[1].profile_id = old.profile_id ]_vars

\* A reservation whose profile has been deleted has just been checked out.
C19_Witness ==
    /\ last.op = "checkout"
    /\ last.code = 200
    /\ Dangling(last.body[1])
    /\ bookings # <<>>

----------------------------------------------------------------------------
(* C20 *)

\* the request just answered came through POST /bookings or PUT /bookings/{id}
LegacyStep ==
    /\ last = NoResponse
    /\ last'.op \in {"create", "update"}
    /\ last'.req.property_id = DEFAULT_PROPERTY

\* the reservation request with the body the legacy handler builds
AsReservation(resp) ==
    IF resp.op = "create"
    THEN create_reservation(resp.req)
    ELSE update_reservation(resp.id, resp.req)

\* C20: Compatibility adapter.  Whenever a legacy booking create or update
\* is answered, the reservation create or update with property_id
\* DEFAULT_PROPERTY, arrival_date = check_in, departure_date = check_out
\* and every other field at its default, sent in the same state instead,
\* gives the same status code, the same returned record, the same
\* reservation store, the same db.json and the same id counter.
C20_Adapter ==
    [][ LegacyStep =>
          \E v \in {<<last', bookings', nextId', disk'>>} :
              ENABLED (AsReservation(v[1]) /\ <<last', bookings', nextId', disk'>> = v) ]_vars

----------------------------------------------------------------------------
(* C21 *)

\* the room type and range of a request have a free unit once the record
\* with the given id is left out
FreeFor(bks, id, w) ==
    Cardinality(OthersConsuming(bks, id, w.room_type,
                                DayOf(w.arrival_date), DayOf(w.departure_date)))
        < ROOM_INVENTORY[w.room_type]

----------------------------------------------------------------------------
(* C22 *)

\* C22: Capacity under the whole lifecycle.  After any sequence of
\* creates, updates, checkins, checkouts and deletes, for every room type
\* and every night the number of stored capacity-consuming reservations
\* covering the night is at most the inventory of the room type; and right
\* after the checkin of a tentative reservation the nights of its stay
\* are within the inventory.
C22_LifecycleCapacity ==
    /\ \A room_type \in RoomTypes, n \in Days :
          NightCount(bookings, room_type, n) <= ROOM_INVENTORY[room_type]
    /\ (/\ last.op = "checkin"
        /\ last.code = 200
        /\ last.before[1].status = "reserved"
        /\ ~last.before[1].guaranteed) =>
          \A n \in DayOf(last.body[1].check_in)..(DayOf(last.body[1].check_out) - 1) :
              NightCount(bookings, last.body[1].room_type, n)
                  <= ROOM_INVENTORY[last.body[1].room_type]

----------------------------------------------------------------------------
(* C23 *)

\* C23: Guard and query agree.  For every store state, room type, date
\* range (empty and reversed ranges included) and include_tentatives flag,
\* check_room_availability without an excluded id is true iff
\* get_availability reports a free count greater than 0 for the room type;
\* and every answer of GET /availability agrees in this way with the guard
\* asked about the range the query used.  (Every store state occurs
\* between two requests, where the first part is evaluated.)
C23_GuardQueryAgree ==
    /\ last = NoResponse =>
          \A room_type \in RoomTypes, check_in \in CUDates, check_out \in CUDates,
             include_tentatives \in BOOLEAN :
             check_room_availability(bookings, room_type, check_in, check_out,
                                     NoId, include_tentatives)
               <=> rooms_available(bookings, check_in, check_out,
                                   include_tentatives, 1)[room_type] > 0
    /\ (last.op = "availability" /\ last.code = 200) =>
          \A room_type \in RoomTypes :
              last.body[room_type] > 0
                <=> check_room_availability(bookings, room_type,
                                            DateOnly(QueryArrival(last.req)),
                                            DateOnly(QueryDeparture(last.req)),
                                            NoId, last.req.include_tentatives)

\* An availability query counting tentatives has just reported no free
\* suite over a range for which the guard refuses with tentatives counted
\* and accepts without them.
C23_Witness ==
    /\ last.op = "availability"
    /\ last.code = 200
    /\ last.req.include_tentatives
    /\ last.body["suite"] = 0
    /\ LET a == DateOnly(QueryArrival(last.req))
           d == DateOnly(QueryDeparture(last.req))
       IN  /\ ~check_room_availability(bookings, "suite", a, d, NoId, TRUE)
           /\ check_room_availability(bookings, "suite", a, d, NoId, FALSE)

----------------------------------------------------------------------------
(* C24 *)

\* the stored reservations of a room type that the policy counts and that
\* overlap [a, d)
PolicyCounted(bks, room_type, a, d, include_tentative) ==
    {i \in OthersOverlapping(bks, NoId, room_type, a, d) :
        PolicyCounts(bks[i], include_tentative)}

\* those whose arrival is strictly before and whose departure is strictly
\* after the day
StrictlyAround(bks, room_type, day, include_tentative) ==
    {i \in 1..Len(bks) :
        /\ bks[i].room_type = room_type
        /\ PolicyCounts(bks[i], include_tentative)
        /\ DayOf(bks[i].check_in) < day
        /\ day < DayOf(bks[i].check_out)}

\* C24: Availability figures.  Every availability query with well-formed
\* dates is answered 200 with, for every room type of the inventory,
\* exactly max(0, total - counted), counted being the number of
\* overlapping reservations the policy counts; so every free count lies in
\* 0..total, also when more reservations than the inventory are counted.
\* When both dates are left out, counted is the number of counted
\* reservations with arrival strictly before and departure strictly
\* after today.
C24_AvailabilityFigures ==
    last.op = "availability" =>
        LET q == last.req IN
        /\ (q.check_in # Malformed /\ q.check_out # Malformed) => last.code = 200
        /\ last.code = 200 =>
              /\ DOMAIN last.body = RoomTypes
              /\ \A room_type \in RoomTypes :
                    LET total   == ROOM_INVENTORY[room_type]
                        counted == Cardinality(PolicyCounted(bookings, room_type,
                                                             QueryArrival(q), QueryDeparture(q),
                                                             q.include_tentatives))
                    IN  /\ last.body[room_type] = IF counted >= total THEN 0 ELSE total - counted
                        /\ last.body[room_type] \in 0..total
                        /\ (q.check_in = <<>> /\ q.check_out = <<>>) =>
                              counted = Cardinality(StrictlyAround(bookings, room_type, q.today,
                                                                   q.include_tentatives))

\* A query without dates has just been answered on a day strictly inside
\* the stay of three counted suites, one more than the inventory: no suite
\* is free.
C24_Witness ==
    /\ last.op = "availability"
    /\ last.code = 200
    /\ last.req.check_in = <<>>
    /\ last.req.check_out = <<>>
    /\ Cardinality(StrictlyAround(bookings, "suite", last.req.today,
                                  last.req.include_tentatives)) = 3
    /\ last.body["suite"] = 0

----------------------------------------------------------------------------
(* C25 *)

\* the appends of a handler are one failure audit record with the status
\* code and one event of the type
FailureLogged(appends, status_code, event_type) ==
    /\ Len(appends[VALIDATION_FILE]) = 1
    /\ appends[VALIDATION_FILE][1].entry = [outcome |-> "failure", status_code |-> status_code]
    /\ appends[VALIDATION_FILE][1].written
    /\ Len(appends[WEBHOOK_FILE]) = 1
    /\ appends[WEBHOOK_FILE][1].entry = [event |-> event_type]
    /\ appends[WEBHOOK_FILE][1].written

\* C25: Update precedence.  An update whose id matches no stored
\* reservation is answered 404, whether or not the requested room type
\* and range have a free unit; an update is answered 409 iff the id
\* matches a stored reservation and the requested room type and range have
\* no free unit once that reservation is left out; and each of the two
\* failures appends one failure audit record and one
\* reservation.update_failed event.
C25_UpdatePrecedence ==
    [][ HandlerStep("update") =>
          LET w      == last'.req
              stored == RecordsWithId(bookings, last'.id)
          IN  /\ stored = {} => last'.code = 404
              /\ last'.code = 409 <=> (stored # {} /\ ~FreeFor(bookings, last'.id, w))
              /\ last'.code \in {404, 409} =>
                    FailureLogged(sink', last'.code, "reservation.update_failed") ]_vars

\* An update of an id that is not stored has just been answered 404 while
\* the requested room type and range had no free unit.
C25_Witness ==
    /\ last.op = "update"
    /\ last.code = 404
    /\ RecordsWithId(bookings, last.id) = {}
    /\ ~FreeFor(bookings, last.id, last.req)
    /\ FailureLogged(sink, 404, "reservation.update_failed")

----------------------------------------------------------------------------
(* C26 *)

\* the failures of the reservation operations
FailureCodes ==
    [create   |-> {409},
     update   |-> {404, 409},
     delete   |-> {404},
     checkin  |-> {404, 400},
     checkout |-> {404, 400}]

\* C26: State unchanged on error.  A create answered 409, an update
\* answered 404 or 409, a delete answered 404 and a checkin or checkout
\* answered 404 or 400 leave the reservation store as it was, every
\* record's status and updated_at included, and leave db.json, the id
\* counter and the profile store as they were: the step appends one
\* failure audit record and one event and changes nothing else.
C26_UnchangedOnError ==
    [][ (/\ last = NoResponse
         /\ last'.op \in DOMAIN FailureCodes
         /\ last'.code \in FailureCodes[last'.op]) =>
            /\ bookings' = bookings
            /\ disk' = disk
            /\ nextId' = nextId
            /\ profiles' = profiles
            /\ Len(sink'[VALIDATION_FILE]) = 1
            /\ sink'[VALIDATION_FILE][1].entry.outcome = "failure"
            /\ Len(sink'[WEBHOOK_FILE]) = 1 ]_vars

\* A create has just been answered 409 next to a store that holds a
\* checked-in reservation.
C26_Witness ==
    /\ last.op = "create"
    /\ last.code = 409
    /\ \E i \in 1..Len(bookings) : bookings[i].status = "checked_in"
    /\ disk[DB_FILE] = bookings
    /\ Len(sink[WEBHOOK_FILE]) = 1

====
